---- MODULE Spec2Model ----
(***************************************************************************)
(* Election and consensus simulators of VSVO-Algorithms:                   *)
(*   scripts/BullyAlgorithm.py     bully_election                          *)
(*   optional/RingAlgorithm.py     ring_election                           *)
(*   scripts/TwoPhaseCommit.py     two_phase_commit                        *)
(*   scripts/ThreePhaseCommit.py   three_phase_commit                      *)
(*   optional/PaxosAlgorithm.py    Acceptor, paxos_round                   *)
(*   optional/DNSResolution.py     iterative_resolution,                   *)
(*                                 recursive_resolution                    *)
(*   scripts/ReadWriteQuorums.py   main                                    *)
(*   scripts/VectorClock.py        merge_vectors, vector_clock_main        *)
(*   all.py                        paxos_main                              *)
(* Every function is modelled as a state machine of its own (one           *)
(* specification per function); the variables a specification does not use *)
(* stay at their idle values.                                              *)
(***************************************************************************)
EXTENDS Integers, Sequences, FiniteSets, TLC

(* ------------------------------ bounds --------------------------------- *)
\* largest process id offered to the elections
MaxId == 2
\* longest process list / ring
MaxProcs == 3
\* most participants of a commit protocol run
MaxVotes == 3
\* most acceptors of a Paxos run
MaxAcceptors == 3
\* largest proposal number offered to a round
MaxProposal == 2
\* most rounds run against the same acceptors
MaxRounds == 3
\* most direct prepare/accept calls made on the acceptors before a round
MaxCalls == 2
\* largest number used in the direct calls and in the round that follows them
MaxCallNumber == 1
\* most labels of a domain name handed to the DNS resolvers
MaxLabels == 4
\* largest number of replicas N handed to the quorum generator
MaxN == 8
\* most processes of the vector clock simulator
MaxClockProcs == 2
\* largest entry of a custom initial vector
MaxInitValue == 0
\* time steps of a vector clock run (a shorter run is a prefix of it)
MaxSteps == 2
\* most tasks entered during a vector clock run
MaxTasks == 2

(* --------------------------- program constants -------------------------- *)
\* the "no coordinator" sentinel returned by both elections
NoCoordinator == -1

\* ids offered as processes and as initiator: they reach below the sentinel
ProcIds == (NoCoordinator - 1)..MaxId

VARIABLES
    pc,              \* position of the running function
    steps,           \* the trace (list of step entries)
    processes,       \* bully/ring: process ids, in list (ring) order
    alive,           \* bully/ring: alive flags aligned with processes
    initiator,       \* bully/ring: id that starts the election
    coordinator,     \* bully/ring: returned coordinator
    election_queue,  \* bully: candidates waiting to run an election
    processed,       \* bully: candidates that already ran one
    iterations,      \* bully: passes through the while loop (bookkeeping)
    election_list,   \* ring: contents of the ELECTION message
    init_idx,        \* ring: 0-based position of the initiator
    current_idx,     \* ring: 0-based position the message is at
    visited,         \* ring: the safety counter of the running lap
    votes,           \* 2PC/3PC: the participants' votes, by position
    pc_2pc,          \* position of two_phase_commit
    steps_2pc,       \* trace of two_phase_commit
    decision_2pc,    \* decision of two_phase_commit
    pc_3pc,          \* position of three_phase_commit
    steps_3pc,       \* trace of three_phase_commit
    decision_3pc,    \* decision of three_phase_commit
    acceptors,       \* paxos: the Acceptor objects, by position
    num_acceptors,   \* paxos: argument of paxos_round
    proposal_n,      \* paxos: argument of paxos_round
    proposal_v,      \* paxos: argument of paxos_round
    acc_i,           \* paxos: 1-based position of the running for loop
    promises,        \* paxos: ids of the acceptors that promised
    highest_accepted, \* paxos: highest (accepted_n, accepted_v) among promisers
    final_value,     \* paxos: the value sent in phase 2
    accepted,        \* paxos: ids of the acceptors that accepted
    chosen,          \* paxos: the returned flag
    round_start,     \* paxos: the acceptors as the running round found them (bookkeeping)
    rounds,          \* paxos: log of the finished rounds (bookkeeping)
    last_call,       \* paxos: the latest direct Acceptor call and its result (bookkeeping)
    calls,           \* paxos: number of direct Acceptor calls made (bookkeeping)
    domain,          \* dns: the name handed to both resolvers
    pc_iter,         \* dns: position of iterative_resolution
    ip_iter,         \* dns: answer of iterative_resolution
    steps_iter,      \* dns: trace of iterative_resolution
    pc_rec,          \* dns: position of recursive_resolution
    ip_rec,          \* dns: answer of recursive_resolution
    steps_rec,       \* dns: trace of recursive_resolution
    N,               \* quorums: number of replicas read from the input
    read_important,  \* quorums: the flag read from the input
    rand_x,          \* quorums: the local x, first random draw
    rand_y,          \* quorums: the local y, second random draw
    N_r,             \* quorums: printed read quorum size
    N_w,             \* quorums: printed write quorum size
    pc_quorum,       \* quorums: position of main
    num_procs,       \* vector clock: number of processes
    vectors,         \* vector clock: the vectors at the end of the last time step
    new_vectors,     \* vector clock: the vectors the running time step works on
    history,         \* vector clock: the vectors after every time step
    num_steps,       \* vector clock: number of time steps to run
    t,               \* vector clock: the running time step
    pc_vc,           \* vector clock: position of vector_clock_main
    last_task,       \* vector clock: the latest task and what it found (bookkeeping)
    tasks_done,      \* vector clock: number of tasks processed (bookkeeping)
    pc_all,          \* all.py: position of paxos_main
    report_all       \* all.py: the verdict paxos_main prints

electionVars == <<processes, alive, initiator, coordinator>>
bullyVars == <<election_queue, processed, iterations>>
ringVars == <<election_list, init_idx, current_idx, visited>>
commitVars == <<votes, pc_2pc, steps_2pc, decision_2pc, pc_3pc, steps_3pc, decision_3pc>>
paxosVars == <<acceptors, num_acceptors, proposal_n, proposal_v, acc_i, promises,
               highest_accepted, final_value, accepted, chosen, round_start, rounds>>
callVars == <<last_call, calls>>
dnsVars == <<domain, pc_iter, ip_iter, steps_iter, pc_rec, ip_rec, steps_rec>>
quorumVars == <<N, read_important, rand_x, rand_y, N_r, N_w, pc_quorum>>
clockVars == <<num_procs, vectors, new_vectors, history, num_steps, t, pc_vc, last_task,
               tasks_done>>
allVars == <<pc_all, report_all>>
toolVars == <<dnsVars, quorumVars, clockVars, allVars>>
vars == <<pc, steps, electionVars, bullyVars, ringVars, commitVars, paxosVars, callVars, toolVars>>

\* idle values of the variables a specification does not use
BullyIdle == election_queue = <<>> /\ processed = {} /\ iterations = 0
RingIdle == election_list = <<>> /\ init_idx = 0 /\ current_idx = 0 /\ visited = 0
ElectionIdle ==
    /\ processes = <<>> /\ alive = <<>> /\ initiator = 0 /\ coordinator = NoCoordinator
    /\ BullyIdle /\ RingIdle
CommitIdle ==
    /\ votes = <<>>
    /\ pc_2pc = "idle" /\ steps_2pc = <<>> /\ decision_2pc = ""
    /\ pc_3pc = "idle" /\ steps_3pc = <<>> /\ decision_3pc = ""
PaxosIdle ==
    /\ acceptors = <<>> /\ num_acceptors = 0 /\ proposal_n = 0 /\ proposal_v = ""
    /\ acc_i = 0 /\ promises = <<>> /\ highest_accepted = <<>> /\ final_value = ""
    /\ accepted = <<>> /\ chosen = FALSE /\ round_start = <<>> /\ rounds = <<>>
    /\ last_call = [op |-> "none"] /\ calls = 0
DnsIdle ==
    /\ domain = [labels |-> <<>>, dotted |-> FALSE]
    /\ pc_iter = "idle" /\ ip_iter = "" /\ steps_iter = <<>>
    /\ pc_rec = "idle" /\ ip_rec = "" /\ steps_rec = <<>>
QuorumIdle ==
    /\ N = 0 /\ read_important = FALSE /\ rand_x = 0 /\ rand_y = 0
    /\ N_r = 0 /\ N_w = 0 /\ pc_quorum = "idle"
ClockIdle ==
    /\ num_procs = 0 /\ vectors = <<>> /\ new_vectors = <<>> /\ history = <<>>
    /\ num_steps = 0 /\ t = 0 /\ pc_vc = "idle"
    /\ last_task = [kind |-> "none"] /\ tasks_done = 0
AllIdle == pc_all = "idle" /\ report_all = [verdict |-> "", value |-> ""]
ToolsIdle == DnsIdle /\ QuorumIdle /\ ClockIdle /\ AllIdle

\* what the actions of each specification leave alone
BullyFrame == UNCHANGED <<ringVars, commitVars, paxosVars, callVars, toolVars>>
RingFrame == UNCHANGED <<bullyVars, commitVars, paxosVars, callVars, toolVars>>
CommitFrame == UNCHANGED <<pc, steps, electionVars, bullyVars, ringVars, paxosVars, callVars, toolVars>>
PaxosFrame == UNCHANGED <<electionVars, bullyVars, ringVars, commitVars, callVars, toolVars>>
CallFrame == UNCHANGED <<electionVars, bullyVars, ringVars, commitVars, toolVars>>

(* ------------------------------ helpers -------------------------------- *)
Range(s) == {s[i] : i \in 1..Len(s)}

\* sequences over S of length 0..k without repeated elements
DistinctSeqs(S, k) ==
    UNION {{s \in [1..m -> S] : \A i, j \in 1..m : i # j => s[i] # s[j]} : m \in 0..k}

\* Python's max() over a non-empty list: a left-to-right scan keeping the
\* first largest element
RECURSIVE PyMaxFrom(_, _, _)
PyMaxFrom(s, i, best) ==
    IF i > Len(s) THEN best
    ELSE PyMaxFrom(s, i + 1, IF s[i] > best THEN s[i] ELSE best)

PyMaxFirst(s) == s[1]

PyMax(s) == PyMaxFrom(s, 2, s[1])

\* list.index(x): 1-based position of the first occurrence, 0 when absent
\* (Python raises ValueError there)
IndexOf(s, x) ==
    IF x \in Range(s) THEN CHOOSE i \in 1..Len(s) : s[i] = x /\ \A j \in 1..(i - 1) : s[j] # x
    ELSE 0

(* =========================== Bully election ============================ *)
\* alive_map = {processes[i]: alive[i] for i in range(n)}: a later position
\* overwrites an earlier one with the same id
alive_map(procs, al) ==
    [p \in Range(procs) |->
        al[CHOOSE i \in 1..Len(procs) : procs[i] = p /\ \A j \in (i + 1)..Len(procs) : procs[j] # p]]

\* higher = [p for p in processes if p > current and alive_map[p]]
HigherIgnoringAlive(procs, al, current) ==
    SelectSeq(procs, LAMBDA p : p > current)

HigherOrEqual(procs, al, current) ==
    SelectSeq(procs, LAMBDA p : p >= current /\ alive_map(procs, al)[p])

Higher(procs, al, current) ==
    SelectSeq(procs, LAMBDA p : p > current /\ alive_map(procs, al)[p])

\* the two guards at the top of bully_election
BullyGuardNoAliveCheck(procs, al, init) ==
    IF init \notin Range(procs) THEN "not_in_list" ELSE "ok"

BullyGuard(procs, al, init) ==
    IF init \notin Range(procs) THEN "not_in_list"
    ELSE IF ~alive_map(procs, al)[init] THEN "crashed"
    ELSE "ok"

\* for h in higher: steps.append("Process h responds OK to current.")
OkEntries(higher, current) ==
    [i \in 1..Len(higher) |-> <<"responds_ok", higher[i], current>>]

ElectionInputs ==
    /\ processes \in DistinctSeqs(ProcIds, MaxProcs)
    /\ alive \in [1..Len(processes) -> BOOLEAN]
    /\ initiator \in ProcIds

BullyInit ==
    /\ ToolsIdle
    /\ ElectionInputs
    /\ pc = "call"
    /\ steps = <<>>
    /\ coordinator = NoCoordinator
    /\ BullyIdle
    /\ RingIdle
    /\ CommitIdle
    /\ PaxosIdle

\* lines 40-53: the guards, then election_queue = [initiator]
BullyStart ==
    /\ pc = "call"
    /\ LET g == BullyGuard(processes, alive, initiator) IN
        IF g = "not_in_list" THEN
            \* line 46
            /\ pc' = "return_error"
            /\ coordinator' = NoCoordinator
            /\ steps' = <<<<"error_not_in_list", initiator>>>>
            /\ UNCHANGED election_queue
        ELSE IF g = "crashed" THEN
            \* line 49
            /\ pc' = "return_error"
            /\ coordinator' = NoCoordinator
            /\ steps' = <<<<"error_crashed", initiator>>>>
            /\ UNCHANGED election_queue
        ELSE
            \* lines 52-53
            /\ pc' = "loop"
            /\ election_queue' = <<initiator>>
            /\ UNCHANGED <<coordinator, steps>>
    /\ UNCHANGED <<processes, alive, initiator, processed, iterations>>
    /\ BullyFrame

\* lines 55-81: one test of the while condition and, when the queue is not
\* empty, one pass through the loop body
BullyLoop ==
    /\ pc = "loop"
    /\ IF election_queue = <<>> THEN
            \* line 81
            /\ pc' = "return_exhausted"
            /\ coordinator' = NoCoordinator
            /\ UNCHANGED <<steps, election_queue, processed, iterations>>
       ELSE LET current == Head(election_queue)
                rest == Tail(election_queue)
            IN  IF current \in processed THEN
                    \* lines 57-58: continue
                    /\ election_queue' = rest
                    /\ iterations' = iterations + 1
                    /\ UNCHANGED <<pc, coordinator, steps, processed>>
                ELSE LET higher == Higher(processes, alive, current)
                         s1 == Append(steps, <<"starts", current>>)
                     IN  /\ processed' = processed \cup {current}
                         /\ iterations' = iterations + 1
                         /\ IF higher = <<>> THEN
                                \* lines 66-70
                                /\ steps' = s1 \o <<<<"no_ok", current>>,
                                                    <<"becomes_coordinator", current>>>>
                                /\ coordinator' = current
                                /\ pc' = "return"
                                /\ election_queue' = rest
                            ELSE
                                \* lines 71-79
                                /\ steps' = s1 \o <<<<"sends_election", current, higher>>>>
                                               \o OkEntries(higher, current)
                                               \o <<<<"waits", current>>>>
                                /\ election_queue' = Append(rest, PyMax(higher))
                                /\ UNCHANGED <<pc, coordinator>>
    /\ UNCHANGED <<processes, alive, initiator>>
    /\ BullyFrame

BullyNext == BullyStart \/ BullyLoop

SpecBully == BullyInit /\ [][BullyNext]_vars

\* the function runs on: a call that can take a step takes it
SpecBullyFair == BullyInit /\ [][BullyNext]_vars /\ WF_vars(BullyNext)

(* ============================ Ring election ============================ *)
\* lines 42-48: processes.index(initiator) (ValueError is caught), then the
\* alive flag at that position
RingGuardNoAliveCheck(procs, al, init) ==
    IF IndexOf(procs, init) = 0 THEN "not_in_ring" ELSE "ok"

RingGuard(procs, al, init) ==
    IF IndexOf(procs, init) = 0 THEN "not_in_ring"
    ELSE IF ~al[IndexOf(procs, init)] THEN "crashed"
    ELSE "ok"

\* lines 60-61: an alive process appends its id to the message
AddToMessageAlways(msg, proc_id, is_alive) == Append(msg, proc_id)

AddToMessage(msg, proc_id, is_alive) ==
    IF is_alive THEN Append(msg, proc_id) ELSE msg

\* lines 57 and 81: while current_idx != init_idx and visited < n
LapContinuesCounterOnly == visited < Len(processes)

LapContinuesShort == current_idx # init_idx /\ visited < Len(processes) - 2

LapContinuesToListStart == current_idx # 0 /\ visited < Len(processes)

LapContinues == current_idx # init_idx /\ visited < Len(processes)

RingInit ==
    /\ ToolsIdle
    /\ ElectionInputs
    /\ pc = "call"
    /\ steps = <<>>
    /\ coordinator = NoCoordinator
    /\ RingIdle
    /\ BullyIdle
    /\ CommitIdle
    /\ PaxosIdle

\* lines 39-55
RingStart ==
    /\ pc = "call"
    /\ LET g == RingGuard(processes, alive, initiator) IN
        IF g = "not_in_ring" THEN
            \* line 45
            /\ pc' = "return_error"
            /\ coordinator' = NoCoordinator
            /\ steps' = <<<<"error_not_in_ring", initiator>>>>
            /\ election_list' = <<>>
            /\ UNCHANGED <<init_idx, current_idx, visited>>
        ELSE IF g = "crashed" THEN
            \* line 48
            /\ pc' = "return_error"
            /\ coordinator' = NoCoordinator
            /\ steps' = <<<<"error_crashed", initiator>>>>
            /\ election_list' = <<>>
            /\ init_idx' = IndexOf(processes, initiator) - 1
            /\ UNCHANGED <<current_idx, visited>>
        ELSE
            \* lines 51-55
            /\ pc' = "election_lap"
            /\ init_idx' = IndexOf(processes, initiator) - 1
            /\ election_list' = <<initiator>>
            /\ steps' = <<<<"starts", initiator, <<initiator>>>>>>
            /\ current_idx' = (IndexOf(processes, initiator) - 1 + 1) % Len(processes)
            /\ visited' = 0
            /\ UNCHANGED coordinator
    /\ UNCHANGED <<processes, alive, initiator>>
    /\ RingFrame

\* lines 57-67: one pass through the body of the first while loop
RingElectionStep ==
    /\ pc = "election_lap"
    /\ LapContinues
    /\ LET proc_id == processes[current_idx + 1]
           msg == AddToMessage(election_list, proc_id, alive[current_idx + 1])
       IN  /\ election_list' = msg
           /\ steps' = Append(steps, IF alive[current_idx + 1]
                                      THEN <<"adds", proc_id, msg>>
                                      ELSE <<"crashed_skip", proc_id>>)
    /\ current_idx' = (current_idx + 1) % Len(processes)
    /\ visited' = visited + 1
    /\ UNCHANGED <<pc, processes, alive, initiator, coordinator, init_idx>>
    /\ RingFrame

\* lines 69-80: the first loop is left, the coordinator is determined and the
\* second lap is set up
RingDetermine ==
    /\ pc = "election_lap"
    /\ ~LapContinues
    /\ coordinator' = PyMax(election_list)
    /\ steps' = steps \o <<<<"returns", initiator>>,
                           <<"highest", PyMax(election_list)>>,
                           <<"sends_coordinator", initiator, PyMax(election_list)>>>>
    /\ current_idx' = (init_idx + 1) % Len(processes)
    /\ visited' = 0
    /\ pc' = "coordinator_lap"
    /\ UNCHANGED <<processes, alive, initiator, election_list, init_idx>>
    /\ RingFrame

\* lines 83-84: an alive process records that it received the COORDINATOR
\* message; a crashed one leaves no entry
ReceivesCoordinatorAlways(trace, proc_id, is_alive, coord) ==
    Append(trace, <<"receives_coordinator", proc_id, coord>>)

ReceivesCoordinator(trace, proc_id, is_alive, coord) ==
    IF is_alive THEN Append(trace, <<"receives_coordinator", proc_id, coord>>)
    ELSE trace

\* lines 81-86: one pass through the body of the second while loop
RingCoordinatorStep ==
    /\ pc = "coordinator_lap"
    /\ LapContinues
    /\ steps' = ReceivesCoordinator(steps, processes[current_idx + 1],
                                    alive[current_idx + 1], coordinator)
    /\ current_idx' = (current_idx + 1) % Len(processes)
    /\ visited' = visited + 1
    /\ UNCHANGED <<pc, processes, alive, initiator, coordinator, election_list, init_idx>>
    /\ RingFrame

\* line 88
RingReturn ==
    /\ pc = "coordinator_lap"
    /\ ~LapContinues
    /\ pc' = "return"
    /\ UNCHANGED <<steps, electionVars, ringVars>>
    /\ RingFrame

RingNext ==
    \/ RingStart
    \/ RingElectionStep
    \/ RingDetermine
    \/ RingCoordinatorStep
    \/ RingReturn

SpecRing == RingInit /\ [][RingNext]_vars

\* the call runs to its return: a started call is never left half-way
SpecRingFair == RingInit /\ [][RingNext]_vars /\ WF_vars(RingNext)

\* lines 51-67 as a function of the arguments: the message the first lap
\* returns with, for an initiator at the 0-based position init
RECURSIVE RingLap(_, _, _, _, _, _)
RingLap(procs, al, init, idx, count, msg) ==
    IF idx # init /\ count < Len(procs)
    THEN RingLap(procs, al, init, (idx + 1) % Len(procs), count + 1,
                 AddToMessage(msg, procs[idx + 1], al[idx + 1]))
    ELSE msg

\* lines 43-73 as a function of the arguments, for an initiator that is in
\* the ring and alive
RingCoordinatorOf(procs, al, initiator_id) ==
    LET init == IndexOf(procs, initiator_id) - 1
    IN  PyMax(RingLap(procs, al, init, (init + 1) % Len(procs), 0, <<initiator_id>>))

(* ================= either election on the same arguments =============== *)
ElectionsNext ==
    \/ BullyStart
    \/ BullyLoop
    \/ RingStart
    \/ RingElectionStep
    \/ RingDetermine
    \/ RingCoordinatorStep
    \/ RingReturn

SpecElections == BullyInit /\ [][ElectionsNext]_vars

(* ================= Two-phase and three-phase commit ==================== *)
\* Python's all(): scans left to right and stops at the first false vote
RECURSIVE PyAllFrom(_, _)
PyAllFrom(s, i) ==
    IF i > Len(s) THEN TRUE
    ELSE IF ~s[i] THEN FALSE
    ELSE PyAllFrom(s, i + 1)

PyAllFirstOnly(s) == IF Len(s) = 0 THEN TRUE ELSE s[1]

PyAll(s) == PyAllFrom(s, 1)

\* f"P{i+1}" for the 0-based position i
PName(i) == <<"P", i + 1>>

\* for i, vote in enumerate(votes): "Participant P{i+1} votes: COMMIT|ABORT"
VoteEntriesReversed(vs) ==
    [k \in 1..Len(vs) |->
        <<"votes", PName(k - 1), IF vs[Len(vs) - k + 1] THEN "COMMIT" ELSE "ABORT">>]

VoteEntries(vs) ==
    [k \in 1..Len(vs) |-> <<"votes", PName(k - 1), IF vs[k] THEN "COMMIT" ELSE "ABORT">>]

\* abort_participants = [f"P{i+1}" for i, v in enumerate(votes) if not v]
RECURSIVE AbortFrom(_, _)
AbortFrom(vs, k) ==
    IF k > Len(vs) THEN <<>>
    ELSE (IF ~vs[k] THEN <<PName(k - 1)>> ELSE <<>>) \o AbortFrom(vs, k + 1)

\* the same comprehension with the test turned round ("if v")
abort_participants_inverted(vs) ==
    LET idx == SelectSeq([k \in 1..Len(vs) |-> k], LAMBDA k : vs[k])
    IN  [j \in 1..Len(idx) |-> PName(idx[j] - 1)]

abort_participants(vs) == AbortFrom(vs, 1)

\* for i in range(n): one entry of the given kind per participant
PerParticipantButLast(kind, n) == [k \in 1..(n - 1) |-> <<kind, PName(k - 1)>>]

PerParticipant(kind, n) == [k \in 1..n |-> <<kind, PName(k - 1)>>]

CommitInit ==
    /\ ToolsIdle
    /\ votes \in UNION {[1..m -> BOOLEAN] : m \in 0..MaxVotes}
    /\ pc_2pc = "call" /\ steps_2pc = <<>> /\ decision_2pc = ""
    /\ pc_3pc = "call" /\ steps_3pc = <<>> /\ decision_3pc = ""
    /\ pc = "idle" /\ steps = <<>>
    /\ ElectionIdle
    /\ PaxosIdle

\* TwoPhaseCommit.py lines 42-51
TwoPCVote ==
    /\ pc_2pc = "call"
    /\ steps_2pc' = <<<<"header", "PHASE 1: VOTE REQUEST">>, <<"vote_request">>>>
                        \o VoteEntries(votes)
    /\ pc_2pc' = "decision"
    /\ UNCHANGED <<votes, decision_2pc, pc_3pc, steps_3pc, decision_3pc>>
    /\ CommitFrame

\* TwoPhaseCommit.py lines 53-71
TwoPCDecide ==
    /\ pc_2pc = "decision"
    /\ LET s1 == steps_2pc \o <<<<"blank">>, <<"header", "PHASE 2: DECISION">>>>
       IN  IF PyAll(votes) THEN
               /\ decision_2pc' = "GLOBAL_COMMIT"
               /\ steps_2pc' = s1 \o <<<<"all_voted_commit">>,
                                       <<"decides", "GLOBAL_COMMIT">>,
                                       <<"sends", "GLOBAL_COMMIT">>>>
                                  \o PerParticipant("commits", Len(votes))
           ELSE
               /\ decision_2pc' = "GLOBAL_ABORT"
               /\ steps_2pc' = s1 \o <<<<"voted_abort", abort_participants(votes)>>,
                                       <<"decides", "GLOBAL_ABORT">>,
                                       <<"sends", "GLOBAL_ABORT">>>>
                                  \o PerParticipant("aborts", Len(votes))
    /\ pc_2pc' = "ack"
    /\ UNCHANGED <<votes, pc_3pc, steps_3pc, decision_3pc>>
    /\ CommitFrame

\* TwoPhaseCommit.py lines 73-79
TwoPCAck ==
    /\ pc_2pc = "ack"
    /\ steps_2pc' = steps_2pc \o <<<<"blank">>, <<"header", "ACKNOWLEDGMENT">>>>
                        \o PerParticipant("sends_ack", Len(votes))
                        \o <<<<"transaction_complete">>>>
    /\ pc_2pc' = "return"
    /\ UNCHANGED <<votes, decision_2pc, pc_3pc, steps_3pc, decision_3pc>>
    /\ CommitFrame

\* ThreePhaseCommit.py lines 45-54
ThreePCVote ==
    /\ pc_3pc = "call"
    /\ steps_3pc' = <<<<"header", "PHASE 1: VOTE REQUEST">>, <<"vote_request">>>>
                        \o VoteEntries(votes)
    /\ pc_3pc' = "check"
    /\ UNCHANGED <<votes, decision_3pc, pc_2pc, steps_2pc, decision_2pc>>
    /\ CommitFrame

\* ThreePhaseCommit.py lines 57-65: a vote is missing, abort and return
ThreePCAbort ==
    /\ pc_3pc = "check"
    /\ ~PyAll(votes)
    /\ decision_3pc' = "GLOBAL_ABORT"
    /\ steps_3pc' = steps_3pc \o <<<<"blank_voted_abort", abort_participants(votes)>>,
                                   <<"decides", "GLOBAL_ABORT">>,
                                   <<"sends", "GLOBAL_ABORT">>>>
                        \o PerParticipant("aborts", Len(votes))
    /\ pc_3pc' = "return"
    /\ UNCHANGED <<votes, pc_2pc, steps_2pc, decision_2pc>>
    /\ CommitFrame

\* ThreePhaseCommit.py lines 67-78
ThreePCPreCommit ==
    /\ pc_3pc = "check"
    /\ PyAll(votes)
    /\ steps_3pc' = steps_3pc \o <<<<"blank">>, <<"header", "PHASE 2: PRE-COMMIT">>,
                                   <<"all_voted_commit">>, <<"sends", "PRE_COMMIT">>>>
                        \o PerParticipant("acks_pre_commit", Len(votes))
                        \o <<<<"blank">>, <<"all_pre_commit_acks">>, <<"crash_note">>>>
    /\ pc_3pc' = "global_commit"
    /\ UNCHANGED <<votes, decision_3pc, pc_2pc, steps_2pc, decision_2pc>>
    /\ CommitFrame

\* ThreePhaseCommit.py lines 80-87
ThreePCCommit ==
    /\ pc_3pc = "global_commit"
    /\ decision_3pc' = "GLOBAL_COMMIT"
    /\ steps_3pc' = steps_3pc \o <<<<"blank">>, <<"header", "PHASE 3: GLOBAL COMMIT">>,
                                   <<"sends", "GLOBAL_COMMIT">>>>
                        \o PerParticipant("commits", Len(votes))
    /\ pc_3pc' = "ack"
    /\ UNCHANGED <<votes, pc_2pc, steps_2pc, decision_2pc>>
    /\ CommitFrame

\* ThreePhaseCommit.py lines 89-96
ThreePCAck ==
    /\ pc_3pc = "ack"
    /\ steps_3pc' = steps_3pc \o <<<<"blank">>, <<"header", "ACKNOWLEDGMENT">>>>
                        \o PerParticipant("sends_final_ack", Len(votes))
                        \o <<<<"transaction_complete">>>>
    /\ pc_3pc' = "return"
    /\ UNCHANGED <<votes, decision_3pc, pc_2pc, steps_2pc, decision_2pc>>
    /\ CommitFrame

CommitNext ==
    \/ TwoPCVote
    \/ TwoPCDecide
    \/ TwoPCAck
    \/ ThreePCVote
    \/ ThreePCAbort
    \/ ThreePCPreCommit
    \/ ThreePCCommit
    \/ ThreePCAck

SpecCommit == CommitInit /\ [][CommitNext]_vars

(* ================================ Paxos ================================ *)
\* the initial promised_n / accepted_n of an Acceptor
NoNumber == -1
\* Python's None (the proposed values are strings)
None == "None"

\* values and numbers offered to the proposer; the numbers reach below the
\* acceptors' initial number
Values == {"value_A", "value_B"}
ProposalNumbers == (NoNumber - 1)..MaxProposal

\* Acceptor.__init__
NewAcceptor(acceptor_id) ==
    [id |-> acceptor_id, promised_n |-> NoNumber, accepted_n |-> NoNumber, accepted_v |-> None]

\* Acceptor.prepare: the returned triple and the acceptor afterwards
AcceptorPrepareNonStrict(acc, n) ==
    IF n >= acc.promised_n
    THEN [ok |-> TRUE, acc_n |-> acc.accepted_n, acc_v |-> acc.accepted_v,
          self |-> [acc EXCEPT !.promised_n = n]]
    ELSE [ok |-> FALSE, acc_n |-> -1, acc_v |-> None, self |-> acc]

AcceptorPrepare(acc, n) ==
    IF n > acc.promised_n
    THEN [ok |-> TRUE, acc_n |-> acc.accepted_n, acc_v |-> acc.accepted_v,
          self |-> [acc EXCEPT !.promised_n = n]]
    ELSE [ok |-> FALSE, acc_n |-> -1, acc_v |-> None, self |-> acc]

\* Acceptor.accept: the returned flag and the acceptor afterwards
AcceptorAcceptUnguarded(acc, n, v) ==
    [ok |-> TRUE,
     self |-> [acc EXCEPT !.promised_n = n, !.accepted_n = n, !.accepted_v = v]]

AcceptorAcceptKeepsPromise(acc, n, v) ==
    IF n >= acc.promised_n
    THEN [ok |-> TRUE, self |-> [acc EXCEPT !.accepted_n = n, !.accepted_v = v]]
    ELSE [ok |-> FALSE, self |-> acc]

AcceptorAcceptStrict(acc, n, v) ==
    IF n > acc.promised_n
    THEN [ok |-> TRUE,
          self |-> [acc EXCEPT !.promised_n = n, !.accepted_n = n, !.accepted_v = v]]
    ELSE [ok |-> FALSE, self |-> acc]

AcceptorAccept(acc, n, v) ==
    IF n >= acc.promised_n
    THEN [ok |-> TRUE,
          self |-> [acc EXCEPT !.promised_n = n, !.accepted_n = n, !.accepted_v = v]]
    ELSE [ok |-> FALSE, self |-> acc]

\* majority = num_acceptors // 2 + 1
MajorityHalf(n) == n \div 2

Majority(n) == n \div 2 + 1

\* lines 106-111: the value sent in phase 2
SelectValueOwn(highest, own) == own

SelectValue(highest, own) ==
    IF highest[2] # None THEN highest[2] ELSE own

\* line 128: len(accepted) >= majority
EnoughAcceptsStrict(count, majority) == count > majority

EnoughAccepts(count, majority) == count >= majority

\* the entry the round log keeps of a returned round
RoundRecord(got_majority, value, is_chosen) ==
    [n |-> proposal_n, v |-> proposal_v, majority_promised |-> got_majority,
     final |-> value, chosen |-> is_chosen]

PaxosInit ==
    /\ ToolsIdle
    /\ num_acceptors \in 1..MaxAcceptors
    /\ proposal_n \in ProposalNumbers
    /\ proposal_v \in Values
    /\ pc = "call"
    /\ steps = <<>>
    /\ acceptors = <<>> /\ acc_i = 0 /\ promises = <<>> /\ highest_accepted = <<>>
    /\ final_value = "" /\ accepted = <<>> /\ chosen = FALSE
    /\ round_start = <<>> /\ rounds = <<>>
    /\ last_call = [op |-> "none"] /\ calls = 0
    /\ ElectionIdle
    /\ CommitIdle

\* lines 78-87: fresh acceptors, then the set-up of phase 1
PaxosStart ==
    /\ pc = "call"
    /\ acceptors' = [i \in 1..num_acceptors |-> NewAcceptor(i)]
    /\ round_start' = [i \in 1..num_acceptors |-> NewAcceptor(i)]
    /\ steps' = <<<<"header", "PHASE 1: PREPARE">>, <<"sends_prepare", proposal_n, num_acceptors>>>>
    /\ promises' = <<>>
    /\ highest_accepted' = <<-1, None>>
    /\ acc_i' = 1
    /\ pc' = "prepare"
    /\ UNCHANGED <<num_acceptors, proposal_n, proposal_v, final_value, accepted, chosen, rounds>>
    /\ PaxosFrame

\* lines 89-97: one pass through the body of the phase 1 loop
PaxosPrepareStep ==
    /\ pc = "prepare"
    /\ acc_i <= Len(acceptors)
    /\ LET acc == acceptors[acc_i]
           r == AcceptorPrepare(acc, proposal_n)
       IN  /\ acceptors' = [acceptors EXCEPT ![acc_i] = r.self]
           /\ IF r.ok THEN
                  /\ promises' = Append(promises, acc.id)
                  /\ steps' = Append(steps, <<"promise", acc.id, r.acc_n, r.acc_v>>)
                  /\ highest_accepted' = IF r.acc_n > highest_accepted[1]
                                         THEN <<r.acc_n, r.acc_v>>
                                         ELSE highest_accepted
              ELSE
                  /\ steps' = Append(steps, <<"reject", acc.id, r.self.promised_n>>)
                  /\ UNCHANGED <<promises, highest_accepted>>
    /\ acc_i' = acc_i + 1
    /\ UNCHANGED <<pc, num_acceptors, proposal_n, proposal_v, final_value, accepted,
                   chosen, round_start, rounds>>
    /\ PaxosFrame

\* lines 99-117: the majority check, the value selection and the set-up of
\* phase 2
PaxosMajorityCheck ==
    /\ pc = "prepare"
    /\ acc_i > Len(acceptors)
    /\ LET majority == Majority(num_acceptors)
           s1 == Append(steps, <<"promises_received", Len(promises), majority>>)
           value == SelectValue(highest_accepted, proposal_v)
       IN  IF Len(promises) < majority THEN
               \* lines 101-103
               /\ steps' = Append(s1, <<"failed_promises">>)
               /\ chosen' = FALSE
               /\ pc' = "return"
               /\ rounds' = Append(rounds, RoundRecord(FALSE, None, FALSE))
               /\ UNCHANGED <<final_value, accepted, acc_i>>
           ELSE
               /\ final_value' = value
               /\ steps' = s1 \o <<<<IF highest_accepted[2] # None
                                      THEN "using_previous" ELSE "using_proposed", value>>,
                                    <<"header", "PHASE 2: ACCEPT">>,
                                    <<"sends_accept", proposal_n, value>>>>
               /\ accepted' = <<>>
               /\ acc_i' = 1
               /\ pc' = "accept"
               /\ UNCHANGED <<chosen, rounds>>
    /\ UNCHANGED <<acceptors, num_acceptors, proposal_n, proposal_v, promises,
                   highest_accepted, round_start>>
    /\ PaxosFrame

\* lines 118-124: one pass through the body of the phase 2 loop
PaxosAcceptStep ==
    /\ pc = "accept"
    /\ acc_i <= Len(acceptors)
    /\ LET acc == acceptors[acc_i]
           r == AcceptorAccept(acc, proposal_n, final_value)
       IN  IF acc.id \in Range(promises) THEN
               /\ acceptors' = [acceptors EXCEPT ![acc_i] = r.self]
               /\ IF r.ok THEN
                      /\ accepted' = Append(accepted, acc.id)
                      /\ steps' = Append(steps, <<"accepted", acc.id>>)
                  ELSE
                      /\ steps' = Append(steps, <<"rejected", acc.id>>)
                      /\ UNCHANGED accepted
           ELSE UNCHANGED <<acceptors, accepted, steps>>
    /\ acc_i' = acc_i + 1
    /\ UNCHANGED <<pc, num_acceptors, proposal_n, proposal_v, promises, highest_accepted,
                   final_value, chosen, round_start, rounds>>
    /\ PaxosFrame

\* lines 126-134
PaxosFinish ==
    /\ pc = "accept"
    /\ acc_i > Len(acceptors)
    /\ LET majority == Majority(num_acceptors)
           s1 == Append(steps, <<"accepts_received", Len(accepted), majority>>)
           enough == EnoughAccepts(Len(accepted), majority)
       IN  /\ chosen' = enough
           /\ steps' = IF enough
                       THEN s1 \o <<<<"header", "VALUE CHOSEN">>, <<"consensus", final_value>>>>
                       ELSE Append(s1, <<"failed_accepts">>)
           /\ rounds' = Append(rounds, RoundRecord(TRUE, final_value, enough))
    /\ pc' = "return"
    /\ UNCHANGED <<acceptors, num_acceptors, proposal_n, proposal_v, acc_i, promises,
                   highest_accepted, final_value, accepted, round_start>>
    /\ PaxosFrame

PaxosNext ==
    \/ PaxosStart
    \/ PaxosPrepareStep
    \/ PaxosMajorityCheck
    \/ PaxosAcceptStep
    \/ PaxosFinish

\* paxos_round as written: every call builds its own acceptors
SpecPaxos == PaxosInit /\ [][PaxosNext]_vars

\* The proposer of paxos_round (lines 78, 80-134) run once more, with a new
\* number and value and its locals unset, against the acceptors the earlier
\* rounds left behind.
PaxosNextRound ==
    /\ pc = "return"
    /\ Len(rounds) < MaxRounds
    /\ proposal_n' \in ProposalNumbers
    /\ proposal_v' \in Values
    /\ round_start' = acceptors
    /\ steps' = <<<<"header", "PHASE 1: PREPARE">>, <<"sends_prepare", proposal_n', num_acceptors>>>>
    /\ promises' = <<>>
    /\ highest_accepted' = <<-1, None>>
    /\ acc_i' = 1
    /\ final_value' = "" /\ accepted' = <<>> /\ chosen' = FALSE
    /\ pc' = "prepare"
    /\ UNCHANGED <<acceptors, num_acceptors, rounds>>
    /\ PaxosFrame

PaxosRoundsNext ==
    \/ PaxosStart
    \/ PaxosPrepareStep
    \/ PaxosMajorityCheck
    \/ PaxosAcceptStep
    \/ PaxosFinish
    \/ PaxosNextRound

SpecPaxosRounds == PaxosInit /\ [][PaxosRoundsNext]_vars

(* ============== direct calls on the acceptors, then a round ============ *)
\* Acceptor objects are driven through their two methods with any number and
\* value, one call at a time; then the proposer of paxos_round runs one round
\* against the acceptors the calls left behind.
\* numbers offered to the direct calls: from the acceptors' initial number up
CallNumbers == NoNumber..MaxCallNumber

AcceptorsInit ==
    /\ ToolsIdle
    /\ num_acceptors \in 1..MaxAcceptors
    /\ acceptors = [i \in 1..num_acceptors |-> NewAcceptor(i)]
    /\ round_start = [i \in 1..num_acceptors |-> NewAcceptor(i)]
    /\ pc = "calls"
    /\ steps = <<>>
    /\ proposal_n = 0 /\ proposal_v = ""
    /\ acc_i = 0 /\ promises = <<>> /\ highest_accepted = <<>>
    /\ final_value = "" /\ accepted = <<>> /\ chosen = FALSE
    /\ rounds = <<>>
    /\ last_call = [op |-> "none"] /\ calls = 0
    /\ ElectionIdle
    /\ CommitIdle

\* acceptors[i].prepare(n)
CallPrepare ==
    /\ pc = "calls"
    /\ calls < MaxCalls
    /\ \E i \in 1..Len(acceptors), n \in CallNumbers :
        LET r == AcceptorPrepare(acceptors[i], n)
        IN  /\ acceptors' = [acceptors EXCEPT ![i] = r.self]
            /\ last_call' = [op |-> "prepare", i |-> i, n |-> n, v |-> None,
                             before |-> acceptors[i], ok |-> r.ok,
                             acc_n |-> r.acc_n, acc_v |-> r.acc_v]
    /\ calls' = calls + 1
    /\ UNCHANGED <<pc, steps, num_acceptors, proposal_n, proposal_v, acc_i, promises,
                   highest_accepted, final_value, accepted, chosen, round_start, rounds>>
    /\ CallFrame

\* acceptors[i].accept(n, v)
CallAccept ==
    /\ pc = "calls"
    /\ calls < MaxCalls
    /\ \E i \in 1..Len(acceptors), n \in CallNumbers, v \in Values :
        LET r == AcceptorAccept(acceptors[i], n, v)
        IN  /\ acceptors' = [acceptors EXCEPT ![i] = r.self]
            /\ last_call' = [op |-> "accept", i |-> i, n |-> n, v |-> v,
                             before |-> acceptors[i], ok |-> r.ok,
                             acc_n |-> -1, acc_v |-> None]
    /\ calls' = calls + 1
    /\ UNCHANGED <<pc, steps, num_acceptors, proposal_n, proposal_v, acc_i, promises,
                   highest_accepted, final_value, accepted, chosen, round_start, rounds>>
    /\ CallFrame

\* paxos_round lines 78, 80-87 against the acceptors as they are
BeginRound ==
    /\ pc = "calls"
    /\ proposal_n' \in CallNumbers
    /\ proposal_v' \in Values
    /\ round_start' = acceptors
    /\ steps' = <<<<"header", "PHASE 1: PREPARE">>, <<"sends_prepare", proposal_n', num_acceptors>>>>
    /\ promises' = <<>>
    /\ highest_accepted' = <<-1, None>>
    /\ acc_i' = 1
    /\ pc' = "prepare"
    /\ UNCHANGED <<acceptors, num_acceptors, final_value, accepted, chosen, rounds>>
    /\ PaxosFrame

AcceptorsNext ==
    \/ CallPrepare
    \/ CallAccept
    \/ BeginRound
    \/ PaxosPrepareStep
    \/ PaxosMajorityCheck
    \/ PaxosAcceptStep
    \/ PaxosFinish

SpecAcceptors == AcceptorsInit /\ [][AcceptorsNext]_vars

(* ===================== properties of the elections ===================== *)
\* ids of the processes whose flag is set
AliveIds == {processes[i] : i \in {j \in 1..Len(processes) : alive[j]}}

\* the initiator is in the list and its flag is set
InitiatorAlive ==
    /\ initiator \in Range(processes)
    /\ \E i \in 1..Len(processes) : processes[i] = initiator /\ alive[i]

\* the diagnostic the guards are to leave for the given input
ExpectedDiagnostic(absent_kind) ==
    <<IF initiator \in Range(processes) THEN "error_crashed" ELSE absent_kind, initiator>>

\* C1: for distinct ids with aligned flags and an initiator that is in the
\* list and alive, bully_election returns the maximum id among the alive
\* processes as coordinator.
C1_BullyElectsMaxAlive ==
    (InitiatorAlive /\ pc \notin {"call", "loop"}) =>
        /\ pc = "return"
        /\ coordinator \in AliveIds
        /\ \A q \in AliveIds : q <= coordinator

\* a finished election that was handed over at least once and in which a
\* crashed process has a higher id than the winner
C1_Witness ==
    /\ pc = "return"
    /\ InitiatorAlive
    /\ coordinator # initiator
    /\ Len(processes) >= 3
    /\ \E i \in 1..Len(processes) : ~alive[i] /\ processes[i] > coordinator

\* C7: with an initiator that is not in the list, or in it but crashed,
\* bully_election returns the sentinel and a trace of exactly one diagnostic
\* entry, and no election step runs.
C7_BullyInitiatorError ==
    ~InitiatorAlive =>
        /\ pc \in {"call", "return_error"}
        /\ election_queue = <<>> /\ processed = {} /\ iterations = 0
        /\ pc = "return_error" =>
            /\ coordinator = NoCoordinator
            /\ steps = <<ExpectedDiagnostic("error_not_in_list")>>

\* the call returned for a crashed initiator although higher processes live
C7_Witness ==
    /\ pc = "return_error"
    /\ initiator \in Range(processes)
    /\ ~InitiatorAlive
    /\ \E q \in AliveIds : q > initiator

\* ring positions of one lap, in order, starting right after the initiator
\* (1-based), and the message the lap is to produce
LapPositions ==
    [k \in 1..(Len(processes) - 1) |->
        ((IndexOf(processes, initiator) - 1 + k) % Len(processes)) + 1]

ExpectedMessage ==
    LET met == SelectSeq(LapPositions, LAMBDA i : alive[i])
    IN  <<initiator>> \o [k \in 1..Len(met) |-> processes[met[k]]]

\* C3: for an alive initiator in the ring, the returned election message is
\* the initiator's id followed by exactly the ids of the alive processes met
\* during the lap, in ring order from just after the initiator; no crashed
\* process's id is in it.
C3_RingMessage ==
    (InitiatorAlive /\ pc \notin {"call", "election_lap", "coordinator_lap"}) =>
        /\ pc = "return"
        /\ election_list = ExpectedMessage
        /\ \A i \in 1..Len(processes) : ~alive[i] => processes[i] \notin Range(election_list)

\* a returned lap that wrapped around the end of the list, passed a crashed
\* process and collected an alive one on each side of the wrap
C3_Witness ==
    /\ pc = "return"
    /\ Len(election_list) >= 2
    /\ \E i \in 1..Len(processes) : ~alive[i]
    /\ IndexOf(processes, initiator) > 1
    /\ alive[1]
    /\ IndexOf(processes, initiator) < Len(processes)

\* C4: whenever ring_election succeeds, the coordinator it returns is the
\* maximum id of the election message it returns.
C4_RingCoordinatorIsMax ==
    pc = "return" =>
        /\ coordinator \in Range(election_list)
        /\ \A x \in Range(election_list) : x <= coordinator

\* a successful election whose winner is neither the first nor the last id
\* of the message
C4_Witness ==
    /\ pc = "return"
    /\ Len(election_list) >= 3
    /\ coordinator # election_list[1]
    /\ coordinator # election_list[Len(election_list)]

\* C8: with an initiator that is absent from the ring, or present but
\* crashed, ring_election returns the sentinel, a trace of exactly one
\* diagnostic entry and an empty election message, and the ring is not
\* walked.
C8_RingInitiatorError ==
    ~InitiatorAlive =>
        /\ pc \in {"call", "return_error"}
        /\ visited = 0 /\ current_idx = 0 /\ election_list = <<>>
        /\ pc = "return_error" =>
            /\ coordinator = NoCoordinator
            /\ steps = <<ExpectedDiagnostic("error_not_in_ring")>>

\* the call returned for a crashed initiator in a ring with alive processes
C8_Witness ==
    /\ pc = "return_error"
    /\ initiator \in Range(processes)
    /\ ~InitiatorAlive
    /\ AliveIds # {}

(* ================== properties of the commit protocols ================= *)
\* C2: for every vote sequence, two_phase_commit and three_phase_commit
\* both return GLOBAL_COMMIT if and only if every vote is true, and
\* GLOBAL_ABORT otherwise.
C2_CommitIffAllVotes ==
    LET unanimous == \A i \in 1..Len(votes) : votes[i]
        expected == IF unanimous THEN "GLOBAL_COMMIT" ELSE "GLOBAL_ABORT"
    IN  /\ pc_2pc = "return" => decision_2pc = expected
        /\ pc_3pc = "return" => decision_3pc = expected

\* both protocols returned on votes whose first is a commit and a later one
\* an abort
C2_Witness ==
    /\ pc_2pc = "return" /\ pc_3pc = "return"
    /\ Len(votes) >= 2
    /\ votes[1]
    /\ \E i \in 2..Len(votes) : ~votes[i]
    /\ decision_2pc = "GLOBAL_ABORT" /\ decision_3pc = "GLOBAL_ABORT"

(* ========================= properties of Paxos ========================= *)
\* C5: for every number of acceptors >= 1 and every integer proposal
\* number, a paxos_round over fresh acceptors returns chosen = true and
\* finalizes the proposer's own value unchanged.
C5_FreshRoundChooses ==
    pc = "return" =>
        /\ chosen
        /\ final_value = proposal_v
        /\ steps[Len(steps)] = <<"consensus", proposal_v>>

\* C6: over any sequence of rounds against the same acceptors, once a value
\* V is chosen in a round numbered n, every later round numbered n' > n that
\* obtains a majority of promises finalizes with V.
C6_ChosenValueIsKept ==
    \A i, j \in 1..Len(rounds) :
        (i < j /\ rounds[i].chosen /\ rounds[j].n > rounds[i].n /\ rounds[j].majority_promised)
            => rounds[j].final = rounds[i].final

\* a later, higher-numbered round whose proposer offered another value than
\* the chosen one and yet finalized the chosen one
C6_Witness ==
    \E i, j \in 1..Len(rounds) :
        /\ i < j /\ rounds[i].chosen /\ rounds[j].n > rounds[i].n
        /\ rounds[j].majority_promised
        /\ rounds[j].v # rounds[i].final
        /\ rounds[j].final = rounds[i].final

\* C9: the round returns chosen = true if and only if the number of
\* acceptors that accepted in phase 2 is at least floor(numAcceptors/2) + 1,
\* and then the trace ends with the finally selected value, which is the
\* value those acceptors hold, as the consensus value.
C9_ChosenIffMajorityAccepted ==
    pc = "return" =>
        /\ chosen <=> (Len(accepted) >= (num_acceptors \div 2) + 1)
        /\ chosen =>
            /\ steps[Len(steps)] = <<"consensus", final_value>>
            /\ \A i \in 1..Len(acceptors) :
                   acceptors[i].id \in Range(accepted) => acceptors[i].accepted_v = final_value

\* a round that reached consensus on a value other than its proposer's own
C9_Witness ==
    /\ pc = "return"
    /\ chosen
    /\ final_value # proposal_v
    /\ Len(accepted) >= 2

\* C10: when fewer than floor(numAcceptors/2) + 1 acceptors grant the
\* prepare, the round returns chosen = false without sending any accept, and
\* no acceptor's accepted number or accepted value changes in that round.
C10_NoMajorityNoAccept ==
    (pc = "return" /\ Len(promises) < (num_acceptors \div 2) + 1) =>
        /\ ~chosen
        /\ accepted = <<>>
        /\ \A k \in 1..Len(steps) : steps[k][1] \notin {"sends_accept", "accepted", "rejected"}
        /\ \A i \in 1..Len(acceptors) :
               /\ acceptors[i].accepted_n = round_start[i].accepted_n
               /\ acceptors[i].accepted_v = round_start[i].accepted_v

\* a round that was refused by acceptors that hold an accepted value
C10_Witness ==
    /\ pc = "return"
    /\ Len(promises) < (num_acceptors \div 2) + 1
    /\ Len(acceptors) >= 2
    /\ \A i \in 1..Len(acceptors) : acceptors[i].accepted_v # None

(* ============ properties of the acceptors and of one round ============= *)
\* positions of the acceptors that granted the prepare of the running round
Granters == {i \in 1..Len(acceptors) : acceptors[i].id \in Range(promises)}

\* phase 2 of the running round was entered
MajorityPromised ==
    /\ pc \in {"accept", "return"}
    /\ Len(promises) >= (num_acceptors \div 2) + 1

\* C11: if at least one acceptor that grants the prepare holds a previously
\* accepted value, the value sent in phase 2 is the accepted value with the
\* highest accepted number among the granting acceptors; the proposer's own
\* value is used only when no granting acceptor holds an accepted value.
C11_ReproposeHighestAccepted ==
    MajorityPromised =>
        LET holders == {i \in Granters : round_start[i].accepted_v # None}
            top == {i \in holders :
                       \A j \in holders : round_start[j].accepted_n <= round_start[i].accepted_n}
        IN  IF holders # {}
            THEN final_value \in {round_start[i].accepted_v : i \in top}
            ELSE final_value = proposal_v

\* C16: over any sequence of prepare and accept calls, no acceptor's promised
\* number decreases from one state to the next.
C16_PromisedNeverDecreases ==
    [][\A i \in 1..Len(acceptors) : acceptors'[i].promised_n >= acceptors[i].promised_n]_vars

\* an accept call with a number above the promised one was taken and raised
\* the promise
C16_Witness ==
    /\ pc = "calls"
    /\ last_call.op = "accept"
    /\ last_call.ok
    /\ last_call.before.promised_n > NoNumber
    /\ acceptors[last_call.i].promised_n > last_call.before.promised_n

\* C18: prepare(n) grants if and only if n is strictly greater than the
\* promised number; a grant sets the promised number to n, returns the
\* current accepted (number, value) pair and leaves that pair unchanged; a
\* refusal leaves the whole acceptor unchanged.
C18_PrepareContract ==
    (pc = "calls" /\ last_call.op = "prepare") =>
        LET before == last_call.before
            after == acceptors[last_call.i]
        IN  /\ last_call.ok <=> (last_call.n > before.promised_n)
            /\ last_call.ok =>
                /\ after.promised_n = last_call.n
                /\ last_call.acc_n = before.accepted_n
                /\ last_call.acc_v = before.accepted_v
                /\ after.accepted_n = before.accepted_n
                /\ after.accepted_v = before.accepted_v
                /\ after.id = before.id
            /\ ~last_call.ok => after = before

\* a prepare was granted by an acceptor that holds an accepted value
C18_Witness ==
    /\ pc = "calls"
    /\ last_call.op = "prepare"
    /\ last_call.ok
    /\ last_call.before.accepted_v # None
    /\ last_call.acc_v = last_call.before.accepted_v

\* C19: accept(n, finalValue) goes only to the acceptors that granted the
\* prepare of the round, each of them accepts, and afterwards each has
\* promised number = accepted number = n and accepted value = finalValue;
\* the acceptors that did not grant are as the round found them.
C19_AcceptOnlyToGranters ==
    (pc = "return" /\ MajorityPromised) =>
        \A i \in 1..Len(acceptors) :
            LET granted == proposal_n > round_start[i].promised_n
            IN  /\ (i \in Granters) <=> granted
                /\ (acceptors[i].id \in Range(accepted)) <=> granted
                /\ granted =>
                    /\ acceptors[i].promised_n = proposal_n
                    /\ acceptors[i].accepted_n = proposal_n
                    /\ acceptors[i].accepted_v = final_value
                /\ ~granted => acceptors[i] = round_start[i]

\* a round that went through phase 2 although one acceptor, which holds
\* another value, had refused the prepare
C19_Witness ==
    /\ pc = "return"
    /\ MajorityPromised
    /\ Cardinality(Granters) >= 2
    /\ \E i \in 1..Len(acceptors) :
        /\ i \notin Granters
        /\ acceptors[i].accepted_v # None
        /\ acceptors[i].accepted_v # final_value

(* ================ further properties of the elections ================== *)
\* C12: a Bully election and a Ring election over a single process that is
\* alive and is the initiator both elect that process, and the Ring election
\* message is exactly that one id.
C12_LoneProcessElectsItself ==
    (Len(processes) = 1 /\ InitiatorAlive
        /\ pc \notin {"call", "loop", "election_lap", "coordinator_lap"}) =>
        /\ pc = "return"
        /\ coordinator = processes[1]
        /\ IF election_list = <<>>
           THEN processed = {processes[1]} /\ iterations = 1
           ELSE election_list = <<processes[1]>> /\ processed = {}

\* the Bully election of a lone process returned
C12_Witness ==
    /\ pc = "return"
    /\ Len(processes) = 1
    /\ alive[1]
    /\ processed = {initiator}
    /\ coordinator = initiator

\* ids of the candidates that started an election, in trace order
Candidates ==
    LET starts == SelectSeq(steps, LAMBDA e : e[1] = "starts")
    IN  [k \in 1..Len(starts) |-> starts[k][2]]

\* C20: bully_election always terminates: the ids of the successive
\* candidates strictly increase, the loop runs at most |processes| times and
\* it ends with the last candidate becoming coordinator.
C20_BullyTerminates ==
    /\ [](/\ iterations <= Len(processes)
          /\ Len(Candidates) = iterations
          /\ \A k \in 1..(Len(Candidates) - 1) : Candidates[k] < Candidates[k + 1]
          /\ pc # "return_exhausted"
          /\ pc = "return" => coordinator = Candidates[Len(Candidates)])
    /\ <>(pc \in {"return", "return_error"})

\* an election that was handed over once and then ended
C20_Witness ==
    /\ pc = "return"
    /\ iterations = 2
    /\ Len(processes) >= 3
    /\ Candidates = <<initiator, coordinator>>

\* C17 as stated: there are ring inputs with distinct ids and an alive
\* initiator for which ring_election elects a coordinator that is not the
\* maximum id among the alive processes.  (The rings offered to the runs
\* are searched for such an input.)
C17_RingCanMissMaximum ==
    /\ processes \in DistinctSeqs(ProcIds, MaxProcs)
    /\ \E procs \in DistinctSeqs(ProcIds, MaxProcs) :
        \E al \in [1..Len(procs) -> BOOLEAN] :
            \E i \in 1..Len(procs) :
                /\ al[i]
                /\ \E j \in 1..Len(procs) :
                       al[j] /\ procs[j] > RingCoordinatorOf(procs, al, procs[i])

\* C17 as amended: for every ring of distinct ids and every alive initiator,
\* every alive process is in the election message and the coordinator is
\* the maximum id among the alive processes.
C17_RingElectsMaxAlive ==
    pc = "return" =>
        /\ AliveIds \subseteq Range(election_list)
        /\ coordinator \in AliveIds
        /\ \A q \in AliveIds : q <= coordinator
        /\ coordinator = RingCoordinatorOf(processes, alive, initiator)

\* a returned election in which the initiator's predecessor is crashed and
\* the largest alive id sits right before that crashed process
C17_Witness ==
    /\ pc = "return"
    /\ Len(processes) >= 3
    /\ LET n == Len(processes)
           pred == ((init_idx + n - 1) % n) + 1
           before == ((init_idx + n - 2) % n) + 1
       IN  /\ ~alive[pred]
           /\ alive[before]
           /\ coordinator = processes[before]
           /\ coordinator # initiator

(* ============== further properties of the commit protocols ============= *)
\* the participants a trace names as having voted ABORT: the lists of its
\* "Participant(s) ... voted ABORT." entries
NamedAborters(trace) ==
    LET named == SelectSeq(trace, LAMBDA e : e[1] \in {"voted_abort", "blank_voted_abort"})
    IN  [k \in 1..Len(named) |-> named[k][2]]

\* P<position> of the false votes, positions counted from 1, in order
FalseVoters ==
    LET idx == SelectSeq([k \in 1..Len(votes) |-> k], LAMBDA k : ~votes[k])
    IN  [j \in 1..Len(idx) |-> <<"P", idx[j]>>]

\* C13: whenever the decision is GLOBAL_ABORT, the trace of two_phase_commit
\* and of three_phase_commit names exactly the participants whose vote is
\* false, as P<position> counted from 1 and in positional order, and no
\* participant that voted commit.
C13_AbortNamesFalseVoters ==
    /\ decision_2pc = "GLOBAL_ABORT" => NamedAborters(steps_2pc) = <<FalseVoters>>
    /\ decision_3pc = "GLOBAL_ABORT" => NamedAborters(steps_3pc) = <<FalseVoters>>

\* both protocols aborted on votes with two aborters and a committer that
\* is not the last participant
C13_Witness ==
    /\ decision_2pc = "GLOBAL_ABORT" /\ decision_3pc = "GLOBAL_ABORT"
    /\ Len(FalseVoters) >= 2
    /\ \E i \in 1..(Len(votes) - 1) : votes[i]

\* the protocol events of a trace, PRE_COMMIT steps and narration left out:
\* the votes, the decision sent to the participants, each participant's
\* commit or abort, and each participant's acknowledgment
ProtocolEvents(trace) ==
    LET kept == SelectSeq(trace, LAMBDA e :
                    \/ e[1] \in {"votes", "commits", "aborts", "sends_ack", "sends_final_ack"}
                    \/ e = <<"sends", "GLOBAL_COMMIT">>
                    \/ e = <<"sends", "GLOBAL_ABORT">>)
    IN  [k \in 1..Len(kept) |->
            IF kept[k][1] \in {"sends_ack", "sends_final_ack"}
            THEN <<"ack", kept[k][2]>>
            ELSE kept[k]]

\* C15: for every vote sequence, with the PRE_COMMIT steps removed the run
\* of three_phase_commit performs the same sequence of protocol events as
\* the run of two_phase_commit.
C15_ThreePCIsTwoPCPlusPreCommit ==
    (pc_2pc = "return" /\ pc_3pc = "return") =>
        ProtocolEvents(steps_3pc) = ProtocolEvents(steps_2pc)

\* 1-based ring positions the first lap has visited so far, in trace order
LapVisits ==
    LET lap == SelectSeq(steps, LAMBDA e : e[1] \in {"adds", "crashed_skip"})
    IN  [k \in 1..Len(lap) |-> IndexOf(processes, lap[k][2])]

\* C21: the election lap of ring_election always terminates; it visits every
\* ring position other than the initiator's exactly once, starting right
\* after the initiator, and takes at most len(ring) steps.
C21_ElectionLapWalksRingOnce ==
    /\ [](pc = "election_lap" =>
            /\ visited <= Len(processes)
            /\ Len(LapVisits) = visited
            /\ \A k \in 1..visited : LapVisits[k] = LapPositions[k])
    /\ [](pc \in {"coordinator_lap", "return"} => LapVisits = LapPositions)
    /\ (pc = "election_lap" ~> pc = "coordinator_lap")

\* a finished lap over a full ring that started in the middle of the list
\* and wrapped around its end
C21_Witness ==
    /\ pc = "coordinator_lap"
    /\ Len(processes) = MaxProcs
    /\ init_idx = 1
    /\ Len(LapVisits) = MaxProcs - 1
    /\ LapVisits[1] = 3

\* the trace entries of the second lap, in trace order
CoordinatorEntries == SelectSeq(steps, LAMBDA e : e[1] = "receives_coordinator")

\* 1-based position in the trace of the entry that announces the coordinator
AnnouncedAt == CHOOSE k \in 1..Len(steps) : steps[k][1] = "sends_coordinator"

\* C22: the second (COORDINATOR) lap of ring_election changes neither the
\* coordinator nor the election message of the first lap; it only appends,
\* after the coordinator was determined, one 'receives COORDINATOR' entry per
\* alive process other than the initiator, in the ring order of the first lap.
C22_SecondLapOnlyTraces ==
    /\ [][pc = "coordinator_lap" =>
            /\ coordinator' = coordinator
            /\ election_list' = election_list
            /\ \/ steps' = steps
               \/ /\ Len(steps') = Len(steps) + 1
                  /\ SubSeq(steps', 1, Len(steps)) = steps
                  /\ steps'[Len(steps')][1] = "receives_coordinator"]_vars
    /\ [](pc = "return" =>
            /\ coordinator = PyMax(ExpectedMessage)
            /\ election_list = ExpectedMessage
            /\ CoordinatorEntries =
                   [k \in 1..(Len(ExpectedMessage) - 1) |->
                       <<"receives_coordinator", ExpectedMessage[k + 1], coordinator>>]
            /\ SubSeq(steps, AnnouncedAt + 1, Len(steps)) = CoordinatorEntries)

\* a returned call whose second lap wrapped around the end of the list and
\* informed two alive processes, the first of them being the coordinator
C22_Witness ==
    /\ pc = "return"
    /\ init_idx = 1
    /\ Len(CoordinatorEntries) = 2
    /\ CoordinatorEntries[1][2] = coordinator
    /\ CoordinatorEntries[2][2] = processes[1]

\* the vote phase of a trace: the entries between the vote request and the
\* next section, one per position of the votes, each carrying that vote
VotesRecorded(trace) ==
    /\ Len(trace) >= 2 + Len(votes)
    /\ trace[2] = <<"vote_request">>
    /\ \A k \in 1..Len(votes) :
        /\ trace[2 + k][1] = "votes"
        /\ trace[2 + k][2] = PName(k - 1)
        /\ trace[2 + k][3] \in {"COMMIT", "ABORT"}
        /\ (trace[2 + k][3] = "COMMIT") <=> votes[k]
    /\ Len(SelectSeq(trace, LAMBDA e : e[1] = "votes")) = Len(votes)

\* C23: in two_phase_commit and three_phase_commit the vote phase records
\* one trace entry per participant, in positional order, carrying exactly the
\* vote supplied for that position, and the run leaves the input votes
\* unmodified.
C23_VotesRecordedVerbatim ==
    /\ [][votes' = votes]_vars
    /\ [](pc_2pc # "call" => VotesRecorded(steps_2pc))
    /\ [](pc_3pc # "call" => VotesRecorded(steps_3pc))

\* both runs returned on votes that differ between the first and the last
\* position
C23_Witness ==
    /\ pc_2pc = "return"
    /\ pc_3pc = "return"
    /\ Len(votes) = MaxVotes
    /\ votes[1]
    /\ ~votes[Len(votes)]

\* names of the participants with a final action of the given kind, in
\* trace order
Acting(trace, kind) ==
    LET es == SelectSeq(trace, LAMBDA e : e[1] = kind)
    IN  [k \in 1..Len(es) |-> es[k][2]]

AllParticipants == [k \in 1..Len(votes) |-> PName(k - 1)]

\* the final actions of a returned run are uniform and match its decision
UniformOutcome(decision, trace) ==
    /\ decision \in {"GLOBAL_COMMIT", "GLOBAL_ABORT"}
    /\ decision = "GLOBAL_COMMIT" =>
        /\ Acting(trace, "commits") = AllParticipants
        /\ Acting(trace, "aborts") = <<>>
    /\ decision = "GLOBAL_ABORT" =>
        /\ Acting(trace, "aborts") = AllParticipants
        /\ Acting(trace, "commits") = <<>>

\* C24: atomic commitment: in every run of two_phase_commit and
\* three_phase_commit every participant commits when the decision is
\* GLOBAL_COMMIT and every participant aborts when it is GLOBAL_ABORT; no run
\* (finished or not) contains both a participant commit and a participant
\* abort.
C24_AtomicCommitment ==
    /\ pc_2pc = "return" => UniformOutcome(decision_2pc, steps_2pc)
    /\ pc_3pc = "return" => UniformOutcome(decision_3pc, steps_3pc)
    /\ Acting(steps_2pc, "commits") = <<>> \/ Acting(steps_2pc, "aborts") = <<>>
    /\ Acting(steps_3pc, "commits") = <<>> \/ Acting(steps_3pc, "aborts") = <<>>

\* both protocols returned an abort in which participants that voted to
\* commit aborted along with the one that did not
C24_Witness ==
    /\ pc_2pc = "return"
    /\ pc_3pc = "return"
    /\ decision_2pc = "GLOBAL_ABORT"
    /\ decision_3pc = "GLOBAL_ABORT"
    /\ Len(votes) = MaxVotes
    /\ Len(abort_participants(votes)) = 1
    /\ Len(Acting(steps_3pc, "aborts")) = MaxVotes

(* ================= further properties of the elections ================= *)
\* C25: for all integer ids, negative ones included, bully_election and
\* ring_election return the sentinel -1 as coordinator if and only if the
\* initiator is absent or crashed: a successful election never yields the
\* sentinel, so a caller's test 'coordinator != -1' never takes a successful
\* election for a failed one.
C25_SentinelOnlyOnError ==
    pc \in {"return", "return_error"} =>
        /\ pc = "return_error" <=> ~InitiatorAlive
        /\ coordinator = NoCoordinator <=> ~InitiatorAlive

(* ================= further properties of the acceptors ================= *)
\* C26: after any sequence of prepare and accept calls on an Acceptor, its
\* accepted number is never greater than its promised number.
C26_AcceptedAtMostPromised ==
    \A i \in 1..Len(acceptors) : acceptors[i].accepted_n <= acceptors[i].promised_n

\* an acceptor that accepted a value and later promised a higher number
C26_Witness ==
    /\ calls = MaxCalls
    /\ last_call.op = "prepare"
    /\ last_call.ok
    /\ last_call.before.accepted_v # None
    /\ acceptors[last_call.i].accepted_n < acceptors[last_call.i].promised_n

(* ============================ DNS resolution =========================== *)
\* A name is the sequence of its labels together with whether the text ends
\* with a dot; a zone or record key of the database is a dotted name.
FQDN(labels) == [labels |-> labels, dotted |-> TRUE]

\* a dict as a set of <<key, value>> pairs
DictKeys(d) == {e[1] : e \in d}
DictGet(d, k) == (CHOOSE e \in d : e[1] = k)[2]

\* DNS_DATABASE, lines 19-87
DNS_DATABASE ==
    "." :> [referrals |-> {<<FQDN(<<"com">>), "TLD_COM">>,
                           <<FQDN(<<"org">>), "TLD_ORG">>,
                           <<FQDN(<<"at">>), "TLD_AT">>},
            records |-> {}]
    @@ "TLD_COM" :> [referrals |-> {<<FQDN(<<"google", "com">>), "AUTH_GOOGLE">>,
                                    <<FQDN(<<"github", "com">>), "AUTH_GITHUB">>},
                     records |-> {}]
    @@ "TLD_ORG" :> [referrals |-> {<<FQDN(<<"wikipedia", "org">>), "AUTH_WIKIPEDIA">>},
                     records |-> {}]
    @@ "TLD_AT" :> [referrals |-> {<<FQDN(<<"tuwien", "ac", "at">>), "AUTH_TUWIEN">>},
                    records |-> {}]
    @@ "AUTH_GOOGLE" :> [referrals |-> {},
                         records |-> {<<FQDN(<<"google", "com">>), "142.250.185.46">>,
                                      <<FQDN(<<"www", "google", "com">>), "142.250.185.68">>,
                                      <<FQDN(<<"mail", "google", "com">>), "142.250.185.69">>}]
    @@ "AUTH_GITHUB" :> [referrals |-> {},
                         records |-> {<<FQDN(<<"github", "com">>), "140.82.121.4">>,
                                      <<FQDN(<<"www", "github", "com">>), "140.82.121.4">>}]
    @@ "AUTH_WIKIPEDIA" :> [referrals |-> {},
                            records |-> {<<FQDN(<<"wikipedia", "org">>), "208.80.154.224">>,
                                         <<FQDN(<<"www", "wikipedia", "org">>), "208.80.154.224">>}]
    @@ "AUTH_TUWIEN" :> [referrals |-> {},
                         records |-> {<<FQDN(<<"tuwien", "ac", "at">>), "128.130.0.1">>,
                                      <<FQDN(<<"www", "tuwien", "ac", "at">>), "128.130.0.2">>,
                                      <<FQDN(<<"tuwel", "tuwien", "ac", "at">>), "128.130.0.10">>}]

\* str.lower() on a label
Lower(label) == IF label = "Google" THEN "google" ELSE label

\* normalize_domain: append the dot when it is missing, then lower-case
normalize_domain(d) ==
    [labels |-> [k \in 1..Len(d.labels) |-> Lower(d.labels[k])], dotted |-> TRUE]

\* domain.rstrip('.').split('.'): the empty text splits into one empty part
Parts(d) == IF d.labels = <<>> THEN <<"">> ELSE d.labels

\* get_tld: parts[-1] + '.'
get_tld(d) == FQDN(<<Parts(d)[Len(Parts(d))]>>)

\* get_parent_zone, lines 103-109
get_parent_zone(d) ==
    IF Len(Parts(d)) <= 2 THEN d ELSE FQDN(Tail(Parts(d)))

\* find_auth_zone, lines 112-120: the first suffix parts[i:], i in
\* range(len(parts) - 1), that the TLD server refers
\* Python's None where a zone is expected: no dotted name equals it
NoZone == [labels |-> <<>>, dotted |-> FALSE]

RECURSIVE FindAuthZoneFrom(_, _, _)
FindAuthZoneFrom(parts, i, tld_data) ==
    IF i >= Len(parts) - 1 THEN NoZone
    ELSE IF FQDN(SubSeq(parts, i + 1, Len(parts))) \in DictKeys(tld_data.referrals)
         THEN FQDN(SubSeq(parts, i + 1, Len(parts)))
         ELSE FindAuthZoneFrom(parts, i + 1, tld_data)

find_auth_zone(d, tld_data) == FindAuthZoneFrom(Parts(d), 0, tld_data)

\* iterative_resolution, lines 123-167: the returned (ip, steps)
iterative_resolution(raw) ==
    LET d == normalize_domain(raw)
        s1 == <<<<"header_iterative", d>>, <<"client_queries_root", d>>>>
        tld == get_tld(d)
        root_data == DNS_DATABASE["."]
    IN  IF tld \notin DictKeys(root_data.referrals)
        THEN [ip |-> None, steps |-> Append(s1, <<"root_unknown_tld", tld>>)]
        ELSE
        LET tld_server == DictGet(root_data.referrals, tld)
            s2 == s1 \o <<<<"root_referral", tld_server, tld>>,
                          <<"client_queries_tld", tld_server, d>>>>
            tld_data == DNS_DATABASE[tld_server]
            parent_zone == find_auth_zone(d, tld_data)
        IN  IF parent_zone = NoZone
            THEN [ip |-> None, steps |-> Append(s2, <<"tld_unknown_zone", d>>)]
            ELSE
            LET auth_server == DictGet(tld_data.referrals, parent_zone)
                s3 == s2 \o <<<<"tld_referral", auth_server, parent_zone>>,
                              <<"client_queries_auth", auth_server, d>>>>
                auth_data == DNS_DATABASE[auth_server]
            IN  IF d \in DictKeys(auth_data.records)
                THEN [ip |-> DictGet(auth_data.records, d),
                      steps |-> Append(s3, <<"auth_answer", DictGet(auth_data.records, d)>>)]
                ELSE [ip |-> None, steps |-> Append(s3, <<"auth_no_record", d>>)]

\* recursive_resolution, lines 170-212: the returned (ip, steps)
recursive_resolution(raw) ==
    LET d == normalize_domain(raw)
        s1 == <<<<"header_recursive", d>>, <<"client_queries_resolver">>,
                <<"resolver_handles_lookups">>>>
        tld == get_tld(d)
        root_data == DNS_DATABASE["."]
    IN  IF tld \notin DictKeys(root_data.referrals)
        THEN [ip |-> None, steps |-> Append(s1, <<"resolver_root_unknown_tld">>)]
        ELSE
        LET tld_server == DictGet(root_data.referrals, tld)
            s2 == Append(s1, <<"resolver_root_referral", tld_server>>)
            tld_data == DNS_DATABASE[tld_server]
            parent_zone == get_parent_zone(d)
        IN  IF parent_zone \notin DictKeys(tld_data.referrals)
            THEN [ip |-> None, steps |-> Append(s2, <<"resolver_tld_unknown_zone">>)]
            ELSE
            LET auth_server == DictGet(tld_data.referrals, parent_zone)
                s3 == Append(s2, <<"resolver_tld_referral", auth_server>>)
                auth_data == DNS_DATABASE[auth_server]
            IN  IF d \in DictKeys(auth_data.records)
                THEN [ip |-> DictGet(auth_data.records, d),
                      steps |-> s3 \o <<<<"resolver_auth_answer", DictGet(auth_data.records, d)>>,
                                        <<"resolver_returns", DictGet(auth_data.records, d)>>>>]
                ELSE [ip |-> None, steps |-> Append(s3, <<"resolver_auth_no_record">>)]

\* labels the names handed to the resolvers are built from: those of the
\* database's zones and hosts, one that is in no zone and one in upper case
DomainLabels == {"www", "tuwel", "google", "tuwien", "ac", "com", "org", "at",
                 "example", "Google"}

DomainInputs ==
    [labels : UNION {[1..m -> DomainLabels] : m \in 0..MaxLabels}, dotted : BOOLEAN]

DnsFrame ==
    UNCHANGED <<pc, steps, electionVars, bullyVars, ringVars, commitVars, paxosVars, callVars,
                quorumVars, clockVars, allVars>>

DnsInit ==
    /\ domain \in DomainInputs
    /\ pc_iter = "call" /\ ip_iter = "" /\ steps_iter = <<>>
    /\ pc_rec = "call" /\ ip_rec = "" /\ steps_rec = <<>>
    /\ pc = "idle" /\ steps = <<>>
    /\ ElectionIdle
    /\ CommitIdle
    /\ PaxosIdle
    /\ QuorumIdle
    /\ ClockIdle
    /\ AllIdle

\* main line 233: ip, steps = iterative_resolution(domain)
IterativeCall ==
    /\ pc_iter = "call"
    /\ ip_iter' = iterative_resolution(domain).ip
    /\ steps_iter' = iterative_resolution(domain).steps
    /\ pc_iter' = "return"
    /\ UNCHANGED <<domain, pc_rec, ip_rec, steps_rec>>
    /\ DnsFrame

\* main line 235: ip, steps = recursive_resolution(domain)
RecursiveCall ==
    /\ pc_rec = "call"
    /\ ip_rec' = recursive_resolution(domain).ip
    /\ steps_rec' = recursive_resolution(domain).steps
    /\ pc_rec' = "return"
    /\ UNCHANGED <<domain, pc_iter, ip_iter, steps_iter>>
    /\ DnsFrame

DnsNext ==
    \/ IterativeCall
    \/ RecursiveCall

SpecDNS == DnsInit /\ [][DnsNext]_vars

\* the names main lists as available (lines 221-225)
AvailableDomains ==
    {<<"google", "com">>, <<"www", "google", "com">>, <<"mail", "google", "com">>,
     <<"github", "com">>, <<"www", "github", "com">>,
     <<"wikipedia", "org">>, <<"www", "wikipedia", "org">>,
     <<"tuwien", "ac", "at">>, <<"www", "tuwien", "ac", "at">>,
     <<"tuwel", "tuwien", "ac", "at">>}

\* C27: for every domain name recursive_resolution returns the same result
\* (the same IP, or no answer) as iterative_resolution; in particular every
\* domain listed as available resolves to the same IP in both modes.
C27_RecursiveEqualsIterative ==
    (pc_iter = "return" /\ pc_rec = "return") =>
        /\ ip_rec = ip_iter
        /\ normalize_domain(domain).labels \in AvailableDomains => ip_rec # None

(* ========================= Read/write quorums ========================== *)
\* random.randint(a, b): any integer of a..b; an empty range raises ValueError
RandInt(a, b) == a..b

QuorumFrame ==
    UNCHANGED <<pc, steps, electionVars, bullyVars, ringVars, commitVars, paxosVars, callVars,
                dnsVars, clockVars, allVars>>

\* the two integers typed at the prompts (lines 17 and 20)
QuorumInit ==
    /\ N \in 0..MaxN
    /\ read_important \in BOOLEAN
    /\ rand_x = 0 /\ rand_y = 0 /\ N_r = 0 /\ N_w = 0
    /\ pc_quorum = "call"
    /\ pc = "idle" /\ steps = <<>>
    /\ ElectionIdle
    /\ CommitIdle
    /\ PaxosIdle
    /\ DnsIdle
    /\ ClockIdle
    /\ AllIdle

\* lines 16-23: N < 1 raises ValueError, which prints the usage and returns
QuorumValidate ==
    /\ pc_quorum = "call"
    /\ pc_quorum' = IF N < 1 THEN "usage" ELSE "choose"
    /\ UNCHANGED <<N, read_important, rand_x, rand_y, N_r, N_w>>
    /\ QuorumFrame

\* lines 25-26
QuorumReadImportant ==
    /\ pc_quorum = "choose"
    /\ read_important
    /\ N_r' = 1
    /\ N_w' = N
    /\ pc_quorum' = "printed"
    /\ UNCHANGED <<N, read_important, rand_x, rand_y>>
    /\ QuorumFrame

\* line 28: x = random.randint(N // 2, N)
QuorumDrawX ==
    /\ pc_quorum = "choose"
    /\ ~read_important
    /\ IF RandInt(N \div 2, N) = {}
       THEN pc_quorum' = "raised" /\ UNCHANGED rand_x
       ELSE pc_quorum' = "draw_y" /\ rand_x' \in RandInt(N \div 2, N)
    /\ UNCHANGED <<N, read_important, rand_y, N_r, N_w>>
    /\ QuorumFrame

\* lines 29-30: y = random.randint(N - x + 1, N), then the sizes are printed;
\* the ValueError of an empty range is raised outside the try block
QuorumDrawY ==
    /\ pc_quorum = "draw_y"
    /\ IF RandInt(N - rand_x + 1, N) = {}
       THEN pc_quorum' = "raised" /\ UNCHANGED <<rand_y, N_r, N_w>>
       ELSE /\ rand_y' \in RandInt(N - rand_x + 1, N)
            /\ N_r' = rand_y'
            /\ N_w' = rand_x
            /\ pc_quorum' = "printed"
    /\ UNCHANGED <<N, read_important, rand_x>>
    /\ QuorumFrame

QuorumNext ==
    \/ QuorumValidate
    \/ QuorumReadImportant
    \/ QuorumDrawX
    \/ QuorumDrawY

SpecQuorum == QuorumInit /\ [][QuorumNext]_vars

\* C28: for every N >= 1 and every outcome of the random choices the
\* read/write quorum generator completes without error and prints sizes
\* with 1 <= N_r <= N, 1 <= N_w <= N, N_r + N_w > N and 2 * N_w > N.
C28_QuorumSizesValid ==
    /\ pc_quorum # "raised"
    /\ pc_quorum = "printed" =>
        /\ 1 <= N_r /\ N_r <= N
        /\ 1 <= N_w /\ N_w <= N
        /\ N_r + N_w > N
        /\ 2 * N_w > N

(* ============================ Vector clocks ============================ *)
\* max(l, r) of two integers
PyMax2(l, r) == IF r > l THEN r ELSE l

\* merge_vectors: [max(l, r) for l, r in zip(v_local, v_remote)]; zip stops
\* at the end of the shorter list
MergeTakeRemote(v_local, v_remote) ==
    [k \in 1..(IF Len(v_local) < Len(v_remote) THEN Len(v_local) ELSE Len(v_remote)) |->
        v_remote[k]]

merge_vectors(v_local, v_remote) ==
    [k \in 1..(IF Len(v_local) < Len(v_remote) THEN Len(v_local) ELSE Len(v_remote)) |->
        PyMax2(v_local[k], v_remote[k])]

\* a list subscript: a negative index counts from the end; the result is the
\* 1-based position, 0 where Python raises IndexError
ListPos(idx, len) ==
    IF idx >= 0 /\ idx < len THEN idx + 1
    ELSE IF idx < 0 /\ idx >= -len THEN idx + len + 1
    ELSE 0

\* new_vectors[i][i] += 1 for the 1-based position i
Tick(vs, i) == [vs EXCEPT ![i][i] = @ + 1]

\* digits a task is made of: every process number, 0, and one past the last
TaskDigits == 0..(num_procs + 1)

\* initial vectors offered: process i starts with own_entry in its own
\* component and other_entry in the others (all zero when both are 0, which
\* is also what answering 'y' at line 52 gives)
InitValues == (-1)..MaxInitValue
InitVectors(n, own_entry, other_entry) ==
    [i \in 1..n |-> [j \in 1..n |-> IF i = j THEN own_entry ELSE other_entry]]

ClockFrame ==
    UNCHANGED <<pc, steps, electionVars, bullyVars, ringVars, commitVars, paxosVars, callVars,
                dnsVars, quorumVars, allVars>>

\* lines 45-65
ClockInit ==
    /\ num_procs \in 1..MaxClockProcs
    /\ \E a, b \in InitValues : vectors = InitVectors(num_procs, a, b)
    /\ num_steps = MaxSteps
    /\ history = <<vectors>>
    /\ new_vectors = <<>>
    /\ t = 0
    /\ pc_vc = "step"
    /\ last_task = [kind |-> "none"]
    /\ tasks_done = 0
    /\ pc = "idle" /\ steps = <<>>
    /\ ElectionIdle
    /\ CommitIdle
    /\ PaxosIdle
    /\ DnsIdle
    /\ QuorumIdle
    /\ AllIdle

\* lines 67-73: the next time step starts on a copy of the vectors
ClockBeginStep ==
    /\ pc_vc = "step"
    /\ t < num_steps
    /\ t' = t + 1
    /\ new_vectors' = vectors
    /\ pc_vc' = "tasks"
    /\ UNCHANGED <<num_procs, vectors, history, num_steps, last_task, tasks_done>>
    /\ ClockFrame

\* lines 82-85: a task of one digit, an internal event
ClockInternal ==
    /\ pc_vc = "tasks"
    /\ tasks_done < MaxTasks
    /\ \E digit \in TaskDigits :
        LET p == ListPos(digit - 1, Len(new_vectors))
        IN  IF p = 0
            THEN /\ pc_vc' = "index_error"
                 /\ UNCHANGED <<new_vectors, last_task>>
            ELSE /\ new_vectors' = Tick(new_vectors, p)
                 /\ last_task' = [kind |-> "internal", p |-> p, before |-> new_vectors]
                 /\ UNCHANGED pc_vc
    /\ tasks_done' = tasks_done + 1
    /\ UNCHANGED <<num_procs, vectors, history, num_steps, t>>
    /\ ClockFrame

\* lines 86-98: a task of two digits, a message from src to dst
ClockMessage ==
    /\ pc_vc = "tasks"
    /\ tasks_done < MaxTasks
    /\ \E d1, d2 \in TaskDigits :
        LET src == ListPos(d1 - 1, Len(new_vectors))
            dst == ListPos(d2 - 1, Len(new_vectors))
        IN  IF src = 0
            THEN /\ pc_vc' = "index_error"
                 /\ UNCHANGED <<new_vectors, last_task>>
            ELSE
            LET sent == Tick(new_vectors, src)
                v_msg == sent[src]
            IN  IF dst = 0
                THEN /\ pc_vc' = "index_error"
                     /\ new_vectors' = sent
                     /\ UNCHANGED last_task
                ELSE
                LET merged == [sent EXCEPT ![dst] = merge_vectors(sent[dst], v_msg)]
                IN  /\ new_vectors' = Tick(merged, dst)
                    /\ last_task' = [kind |-> "message", src |-> src, dst |-> dst,
                                      before |-> new_vectors, v_msg |-> v_msg]
                    /\ UNCHANGED pc_vc
    /\ tasks_done' = tasks_done + 1
    /\ UNCHANGED <<num_procs, vectors, history, num_steps, t>>
    /\ ClockFrame

\* lines 99-100: a task of any other length is skipped
ClockSkipInvalid ==
    /\ pc_vc = "tasks"
    /\ tasks_done < MaxTasks
    /\ last_task' = [kind |-> "invalid", before |-> new_vectors]
    /\ tasks_done' = tasks_done + 1
    /\ UNCHANGED <<num_procs, vectors, new_vectors, history, num_steps, t, pc_vc>>
    /\ ClockFrame

\* lines 102-103: the tasks of the time step are used up
ClockEndStep ==
    /\ pc_vc = "tasks"
    /\ vectors' = new_vectors
    /\ history' = Append(history, new_vectors)
    /\ pc_vc' = "step"
    /\ UNCHANGED <<num_procs, new_vectors, num_steps, t, last_task, tasks_done>>
    /\ ClockFrame

\* lines 105-116: all time steps ran, the table is printed
ClockFinish ==
    /\ pc_vc = "step"
    /\ t >= num_steps
    /\ pc_vc' = "table"
    /\ UNCHANGED <<num_procs, vectors, new_vectors, history, num_steps, t, last_task,
                   tasks_done>>
    /\ ClockFrame

ClockNext ==
    \/ ClockBeginStep
    \/ ClockInternal
    \/ ClockMessage
    \/ ClockSkipInvalid
    \/ ClockEndStep
    \/ ClockFinish

SpecClock == ClockInit /\ [][ClockNext]_vars

\* every component of every vector of vs is at most that of ws
AllAtMost(vs, ws) ==
    /\ Len(ws) = Len(vs)
    /\ \A i \in 1..Len(vs) :
        /\ Len(ws[i]) = Len(vs[i])
        /\ \A j \in 1..Len(vs[i]) : vs[i][j] <= ws[i][j]

PaxosMainsInit ==
    /\ num_acceptors \in 1..MaxAcceptors
    /\ proposal_n \in ProposalNumbers
    /\ proposal_v \in Values
    /\ pc = "call"
    /\ steps = <<>>
    /\ acceptors = <<>> /\ acc_i = 0 /\ promises = <<>> /\ highest_accepted = <<>>
    /\ final_value = "" /\ accepted = <<>> /\ chosen = FALSE
    /\ round_start = <<>> /\ rounds = <<>>
    /\ last_call = [op |-> "none"] /\ calls = 0
    /\ pc_all = "call"
    /\ report_all = [verdict |-> "", value |-> ""]
    /\ ElectionIdle
    /\ CommitIdle
    /\ DnsIdle
    /\ QuorumIdle
    /\ ClockIdle

\* all.py lines 1051-1074: the inputs are validated, the phases are printed
\* and the verdict follows; no acceptor is consulted
AllPaxosMain ==
    /\ pc_all = "call"
    /\ IF num_acceptors < 1
       THEN pc_all' = "usage" /\ UNCHANGED report_all
       ELSE /\ report_all' = [verdict |-> "ACHIEVED", value |-> proposal_v]
            /\ pc_all' = "done"
    /\ UNCHANGED <<pc, steps, electionVars, bullyVars, ringVars, commitVars, paxosVars,
                   callVars, dnsVars, quorumVars, clockVars>>

PaxosMainsNext ==
    \/ PaxosStart
    \/ PaxosPrepareStep
    \/ PaxosMajorityCheck
    \/ PaxosAcceptStep
    \/ PaxosFinish
    \/ AllPaxosMain

SpecPaxosMains == PaxosMainsInit /\ [][PaxosMainsNext]_vars

\* C30: the Paxos driver duplicated in all.py differs from the standalone
\* one only cosmetically: for every number of acceptors >= 1 and every
\* integer proposal number, all.py's paxos_main reports consensus achieved
\* (on the same value) exactly when paxos_round returns chosen = true, and
\* reports failure otherwise.
C30_AllPyDriverAgrees ==
    (pc = "return" /\ pc_all = "done") =>
        /\ (report_all.verdict = "ACHIEVED") <=> chosen
        /\ chosen => report_all.value = final_value
        /\ ~chosen => report_all.verdict = "FAILED"

====
